---------------------------- MODULE Spec2Model ----------------------------
(***************************************************************************)
(* Model of the five expense dashboards of the repository.  Each script is *)
(* a linear pipeline over one uploaded table:                              *)
(*     column check -> clean -> filter -> aggregates -> analytics -> export *)
(* A run is one execution of one script on one table.  `script` selects    *)
(* the file that is run:                                                   *)
(*     "tracker" = src/expense_tracker.py     "three" = src/3.py            *)
(*     "new"     = src/new.py   "app" = src/app.py   "xy" = src/xy.py       *)
(* Cells of the uploaded CSV are strings; dates are the integers yyyymmdd  *)
(* once parsed (0 is NaT), a period "YYYY-MM" is the integer yyyymm, whose  *)
(* order is the order of the strings.  Amounts are integers.               *)
(***************************************************************************)
EXTENDS Integers, Sequences, FiniteSets, TLC

VARIABLES
    script,          \* which of the five scripts runs
    pc,              \* position of the run in the script
    headers,         \* header line of the uploaded CSV
    rows,            \* data lines of the uploaded CSV: tuples of cells
    columns,         \* df.columns after renaming / normalising
    date_col, cat_col, amt_col, user_col,   \* resolved source columns ("" = None)
    df,              \* the cleaned table
    date_range,      \* <<start_date, end_date>> chosen in the widgets
    sel_cats,        \* selected categories
    sel_users,       \* selected users
    sel_months,      \* selected months (xy.py)
    filtered,        \* the filtered table
    monthly,         \* per-period totals, in the order the script leaves them
    category_totals, \* per-category totals, in the order the script leaves them
    total_spent,     \* sum of the filtered amounts
    avg_monthly,     \* mean of the per-period totals
    budgets,         \* budget per category entered in the sidebar
    budget_df,       \* budget comparison table
    forecast_next,   \* the forecast / prediction
    daily_max,       \* most expensive day (new.py)
    anomalies,       \* idx of the rows listed as anomalous
    export,          \* what the download buttons offer
    income,          \* monthly income entered (new.py, app.py, xy.py)
    savings_goal,    \* savings goal entered (expense_tracker.py; goal in new.py)
    savings,         \* savings achieved / estimated
    savings_pct,     \* savings in percent of the total budget / of the income
    goal_status,     \* status next to the savings KPI (expense_tracker.py)
    goal_message,    \* message of the savings tab (expense_tracker.py)
    progress,        \* value handed to st.progress
    disk,            \* the file financial_summary.xlsx of the working directory
    other            \* a second run of the script, in another session

vars == <<script, pc, headers, rows, columns, date_col, cat_col, amt_col, user_col,
          df, date_range, sel_cats, sel_users, sel_months, filtered, monthly,
          category_totals, total_spent, avg_monthly, budgets, budget_df,
          forecast_next, daily_max, anomalies, export, income, savings_goal,
          savings, savings_pct, goal_status, goal_message, progress, disk, other>>

Scripts == {"tracker", "three", "new", "app", "xy"}

(***************************************************************************)
(* Bounds of the model.                                                    *)
(***************************************************************************)
MaxRows == 2        \* longest table of the general input families
MaxAnomRows == 4    \* longest table of the anomaly input family
MaxTrendRows == 3   \* longest table of the trend input family

(***************************************************************************)
(* Strings.  TLC has no character operations; the string functions of the  *)
(* scripts are tabulated on the strings the model uses.                    *)
(***************************************************************************)
\* str.lower()
Lower(s) ==
    CASE s = "Date" -> "date"
      [] s = "DATE" -> "date"
      [] s = " Date " -> " date "
      [] s = "Transaction Date" -> "transaction date"
      [] s = "Dated" -> "dated"
      [] s = "Category" -> "category"
      [] s = "Cat" -> "cat"
      [] s = "Amount" -> "amount"
      [] s = "Value" -> "value"
      [] s = "User" -> "user"
      [] s = "Username" -> "username"
      [] s = "Name" -> "name"
      [] s = "Person" -> "person"
      [] s = "Notes" -> "notes"
      [] OTHER -> s      \* "date", "txn_date", "amt", ...: already lower case

\* str.strip()
Strip(s) ==
    CASE s = " Date " -> "Date"
      [] s = "RENT " -> "RENT"
      [] OTHER -> s

\* str.capitalize(): first character upper case, the rest lower case
Capitalize(s) ==
    CASE s = "date" -> "Date"
      [] s = "DATE" -> "Date"
      [] s = "Transaction Date" -> "Transaction date"
      [] s = "txn_date" -> "Txn_date"
      [] s = "amt" -> "Amt"
      [] OTHER -> s      \* "Date", "Category", "Cat", ...: already capitalised

\* str.title(): every word capitalised
Title(s) ==
    CASE s = "food" -> "Food"
      [] s = "RENT " -> "Rent "
      [] s = "RENT" -> "Rent"
      [] s = "nan" -> "Nan"
      [] s = "alice" -> "Alice"
      [] OTHER -> s      \* "Rent", "Food", "Bob": already title case

\* "user" in s.lower()
ContainsUser(s) == Lower(s) \in {"user", "username"}

\* Python's order of the strings that are sorted somewhere (sorted(), groupby keys)
StrRank(s) ==
    CASE s = "Alice" -> 1
      [] s = "Bob" -> 2
      [] s = "Default User" -> 3
      [] s = "Food" -> 4
      [] s = "Nan" -> 5
      [] s = "Rent" -> 6
      [] s = "alice" -> 7
      [] s = "food" -> 8
      [] OTHER -> 9

(***************************************************************************)
(* Sequences.                                                              *)
(***************************************************************************)
Range(s) == {s[i] : i \in DOMAIN s}

SeqsUpTo(S, n) == UNION {[1..k -> S] : k \in 0..n}

RECURSIVE SumSeq(_)
SumSeq(s) == IF s = <<>> THEN 0 ELSE Head(s) + SumSeq(Tail(s))

\* position of the first element equal to x (0 if none)
RECURSIVE IndexFrom(_, _, _)
IndexFrom(s, x, i) ==
    IF i > Len(s) THEN 0 ELSE IF s[i] = x THEN i ELSE IndexFrom(s, x, i + 1)
IndexOf(s, x) == IndexFrom(s, x, 1)

\* the sequences that list every element of S once
Orderings(S) ==
    {p \in [1..Cardinality(S) -> S] : \A i, j \in DOMAIN p : i # j => p[i] # p[j]}

\* sorted(S) / sort_index() on distinct keys: the one ordering ascending in rank
SortedBy(S, rank) ==
    CHOOSE p \in Orderings(S) : \A i, j \in DOMAIN p : i < j => rank[p[i]] < rank[p[j]]

(***************************************************************************)
(* Reading cells.                                                          *)
(***************************************************************************)
\* pd.to_datetime(..., errors="coerce"): the date yyyymmdd, 0 (NaT) if unparseable
ToDatetime(c) ==
    CASE c = "2023-01-05" -> 20230105
      [] c = "2024-01-05" -> 20240105
      [] c = "2024-02-05" -> 20240205
      [] c = "2024-03-05" -> 20240305
      [] c = "2024-04-05" -> 20240405
      [] OTHER -> 0

IsNaT(d) == d = 0

\* an amount cell as pd.read_csv leaves it in a column: a number, NaN (empty
\* cell) or, in a column that holds any text, the string itself
Num(n) == [k |-> "num", v |-> n]
NaN == [k |-> "nan", v |-> 0]
Text == [k |-> "str", v |-> 0]

ReadAmount(c) ==
    CASE c = "10" -> Num(10)
      [] c = "20" -> Num(20)
      [] c = "100" -> Num(100)
      [] c = "200" -> Num(200)
      [] c = "300" -> Num(300)
      [] c = "1000" -> Num(1000)
      [] c = "" -> NaN
      [] OTHER -> Text

\* pd.to_numeric(..., errors="coerce").fillna(0)
ToNumericFill0(c) == IF ReadAmount(c).k = "num" THEN ReadAmount(c) ELSE Num(0)

\* a category cell as pd.read_csv leaves it: the string, NaN for an empty cell
NaNCat == "<NaN>"
ReadCat(c) == IF c = "" THEN NaNCat ELSE c

\* .astype(str).str.title().str.strip(): NaN becomes "nan", then "Nan"
AsTitleStrip(c) == Strip(Title(IF c = NaNCat THEN "nan" ELSE c))

\* Date.dt.to_period("M").astype(str): "YYYY-MM", kept as yyyymm
YearMonth(d) == d \div 100

MonthNum(d) == (d \div 100) % 100

\* Date.dt.month_name()
MonthNames ==
    << "January", "February", "March", "April", "May", "June", "July", "August",
       "September", "October", "November", "December" >>
MonthName(d) == IF IsNaT(d) THEN "" ELSE MonthNames[MonthNum(d)]

\* order of the month names as strings
SortedMonthNames ==
    << "April", "August", "December", "February", "January", "July", "June", "March",
       "May", "November", "October", "September" >>
MonthRank(m) == IndexOf(SortedMonthNames, m)


(***************************************************************************)
(* Inputs: the uploaded tables the model runs the scripts on.              *)
(***************************************************************************)
GoodHeaders == <<"Date", "Category", "Amount">>
UserHeaders == <<"Date", "Category", "Amount", "User">>

\* header lines with three columns, resolvable or not
HeaderLines ==
    { GoodHeaders,
      <<"date", "category", "amount">>,
      <<"DATE", "Cat", "amt">>,
      <<"Transaction Date", "Category", "Value">>,
      <<"txn_date", "Category", "Amount">>,
      <<" Date ", "Category", "Amount">>,
      <<"Dated", "Category", "Amount">>,
      <<"Date", "Category", "Notes">>,
      <<"Notes", "Category", "Amount">>,
      <<"Date", "Notes", "Amount">> }

\* header lines with a fourth column, a user column or not
UserHeaderLines ==
    { UserHeaders,
      <<"Date", "Category", "Amount", "Username">>,
      <<"Date", "Category", "Amount", "Name">>,
      <<"Date", "Category", "Amount", "Person">>,
      <<"Date", "Cat", "Amount", "Category">>,
      <<"Date", "Category", "Amount", "Notes">> }

GeneralRows ==
    {<<d, c, a>> : d \in {"2023-01-05", "2024-01-05", "2024-02-05"},
                   c \in {"Rent", "food"}, a \in {"10", "20"}}

\* rows with unparseable dates, empty categories, empty and textual amounts
QualityRows ==
    {<<d, c, a>> : d \in {"2024-01-05", "n/a"}, c \in {"food", ""},
                   a \in {"10", "", "abc"}}

UserRows ==
    {<<"2024-01-05", c, "10", u>> : c \in {"food", "RENT "}, u \in {"alice", "Bob"}}

AnomalyRows ==
    {<<"2024-01-05", c, a>> : c \in {"Rent", "food"}, a \in {"10", "1000"}}

\* one transaction a month, month after month
TrendDates == <<"2024-01-05", "2024-02-05", "2024-03-05", "2024-04-05">>
TrendTables ==
    UNION {{[i \in 1..k |-> <<TrendDates[i], "food", a[i]>>] :
               a \in [1..k -> {"100", "200", "300"}]} :
           k \in {n \in 1..MaxTrendRows : n <= Len(TrendDates)}}

Input(h, r) == [headers |-> h, rows |-> r]

SchemaInputs ==
    {Input(h, <<<<"2024-01-05", "food", "10">>>>) : h \in HeaderLines}
    \cup {Input(h, <<<<"2024-01-05", "food", "10", "alice">>>>) : h \in UserHeaderLines}

TableInputs ==
    {Input(GoodHeaders, r) : r \in SeqsUpTo(GeneralRows, MaxRows)}
    \cup {Input(GoodHeaders, r) : r \in SeqsUpTo(QualityRows, MaxRows)}
    \cup {Input(UserHeaders, r) : r \in SeqsUpTo(UserRows, MaxRows)}
    \cup {Input(GoodHeaders, r) : r \in TrendTables}

AnomalyInputs ==
    {Input(GoodHeaders, r) : r \in SeqsUpTo(AnomalyRows, MaxAnomRows)}
    \cup {Input(<<"Date", "Notes", "Amount">>, <<<<"2024-01-05", "food", "10">>>>)}

(***************************************************************************)
(* Values of results that are not numbers.                                 *)
(***************************************************************************)
None == [k |-> "none", v |-> 0]

\* a quotient num / den of two numbers, den > 0
Frac(n, d) == [k |-> "num", v |-> n, den |-> d]
NoFrac == [k |-> "none", v |-> 0, den |-> 1]
NaNFrac == [k |-> "nan", v |-> 0, den |-> 1]
InfFrac == [k |-> "inf", v |-> 0, den |-> 1]

\* excel_path = "financial_summary.xlsx": a path relative to the working
\* directory, which all sessions of the server share; the file is absent or
\* holds the table last written to it
NoFile == [exists |-> FALSE, table |-> <<>>]
FileOf(t) == [exists |-> TRUE, table |-> t]

\* the second run: where it is, the category totals it has computed from its
\* own upload, and the report it offers for download; NoRun when there is none
NoRun == [pc |-> "off", totals |-> <<>>, report |-> NoFile]

(***************************************************************************)
(* State after the upload, before the column check.                        *)
(***************************************************************************)
Start(inputs, scripts) ==
    /\ script \in scripts
    /\ \E inp \in inputs : headers = inp.headers /\ rows = inp.rows
    /\ pc = "columns"
    /\ columns = <<>>
    /\ date_col = "" /\ cat_col = "" /\ amt_col = "" /\ user_col = ""
    /\ df = <<>>
    /\ date_range = <<0, 0>>
    /\ sel_cats = {} /\ sel_users = {} /\ sel_months = {}
    /\ filtered = <<>>
    /\ monthly = <<>>
    /\ category_totals = <<>>
    /\ total_spent = None
    /\ avg_monthly = NoFrac
    /\ budgets = <<>>
    /\ budget_df = <<>>
    /\ forecast_next = NoFrac
    /\ daily_max = 0
    /\ anomalies = {}
    /\ export = [csv |-> <<>>, sheets |-> <<>>]
    /\ income = 0 /\ savings_goal = 0
    /\ savings = NoFrac /\ savings_pct = NoFrac
    /\ goal_status = "" /\ goal_message = ""
    /\ progress = NoFrac
    /\ disk = NoFile

Init == Start(SchemaInputs \cup TableInputs, Scripts) /\ other = NoRun

InitAnomaly == Start(AnomalyInputs, Scripts) /\ other = NoRun

(***************************************************************************)
(* Column check.                                                           *)
(***************************************************************************)
\* col_map = {c.lower(): c for c in df.columns}: a later column replaces an
\* earlier one with the same key
ColMapKeys(hs) == {Lower(hs[i]) : i \in DOMAIN hs}
ColMapGet(hs, key) ==
    hs[CHOOSE i \in DOMAIN hs :
          /\ Lower(hs[i]) = key
          /\ \A j \in DOMAIN hs : Lower(hs[j]) = key => j <= i]

\* find_col: the column of the first alias that is a key of col_map, else None
RECURSIVE find_col(_, _)
find_col(possible, hs) ==
    IF possible = <<>> THEN ""
    ELSE IF Lower(Head(possible)) \in ColMapKeys(hs)
         THEN ColMapGet(hs, Lower(Head(possible)))
         ELSE find_col(Tail(possible), hs)

\* a column check that stops only when no required column is found
RequiredFoundAny(d, c, a) == d # "" \/ c # "" \/ a # ""

\* if not (date_col and cat_col and amt_col): st.stop()
RequiredFound(d, c, a) == d # "" /\ c # "" /\ a # ""

\* df.rename(columns={date_col: "Date", ...}), then user_col to "User"
Renamed(hs, d, c, a, u) ==
    [i \in DOMAIN hs |->
        IF hs[i] = d THEN "Date"
        ELSE IF hs[i] = c THEN "Category"
        ELSE IF hs[i] = a THEN "Amount"
        ELSE IF u # "" /\ hs[i] = u THEN "User"
        ELSE hs[i]]

\* [c.strip().capitalize() for c in df.columns]
NormalizedColumns(hs) == [i \in DOMAIN hs |-> Capitalize(Strip(hs[i]))]

\* required_cols.issubset(df.columns)
RequiredCols == {"Date", "Category", "Amount"}
HasRequired(cols) == RequiredCols \subseteq Range(cols)

\* 3.py: the first column whose lower-cased name contains "user"
RECURSIVE FirstUserCol(_)
FirstUserCol(cols) ==
    IF cols = <<>> THEN ""
    ELSE IF ContainsUser(Head(cols)) THEN Head(cols) ELSE FirstUserCol(Tail(cols))

Stay == UNCHANGED <<script, headers, rows>>

NoSavings ==
    UNCHANGED <<income, savings_goal, savings, savings_pct, goal_status, goal_message,
                progress>>

NoDisk == UNCHANGED <<disk, other>>

NoResults ==
    UNCHANGED <<df, date_range, sel_cats, sel_users, sel_months, filtered, monthly,
                category_totals, total_spent, avg_monthly, budgets, budget_df,
                forecast_next, daily_max, anomalies, export>>

ColumnCheck ==
    /\ pc = "columns"
    /\ IF script = "tracker"
       THEN LET d == find_col(<<"date", "transaction date">>, headers)
                c == find_col(<<"category", "cat">>, headers)
                a == find_col(<<"amount", "amt", "value">>, headers)
                u == find_col(<<"user", "name", "person">>, headers)
            IN /\ date_col' = d /\ cat_col' = c /\ amt_col' = a /\ user_col' = u
               /\ IF RequiredFound(d, c, a)
                  THEN columns' = Renamed(headers, d, c, a, u) /\ pc' = "clean"
                  ELSE columns' = headers /\ pc' = "schema_error"
       ELSE LET cols == NormalizedColumns(headers)
                has(n) == IF n \in Range(cols) THEN n ELSE ""
            IN /\ columns' = cols
               /\ date_col' = has("Date") /\ cat_col' = has("Category")
               /\ amt_col' = has("Amount")
               /\ user_col' = IF script = "three" THEN FirstUserCol(cols) ELSE ""
               /\ pc' = IF HasRequired(cols) THEN "clean" ELSE "schema_error"
    /\ Stay /\ NoSavings /\ NoDisk /\ NoResults

(***************************************************************************)
(* Cleaning.                                                               *)
(***************************************************************************)
\* df[name] of the i-th data line
Cell(i, name) == rows[i][IndexOf(columns, name)]

\* the Amount column is of dtype object (strings) when a cell of it is text
AmountIsObject ==
    \E i \in DOMAIN rows : ReadAmount(Cell(i, "Amount")).k = "str"

\* the i-th line as the script keeps it after its cleaning assignments
CleanRow(i) ==
    LET d == ToDatetime(Cell(i, "Date"))
        normal == script \in {"tracker", "three"}
    IN [idx |-> i,
        Date |-> d,
        Category |-> IF normal THEN AsTitleStrip(ReadCat(Cell(i, "Category")))
                     ELSE ReadCat(Cell(i, "Category")),
        Amount |-> IF normal THEN ToNumericFill0(Cell(i, "Amount"))
                   ELSE IF AmountIsObject THEN Text
                   ELSE ReadAmount(Cell(i, "Amount")),
        User |-> IF script = "tracker"
                 THEN (IF user_col # "" THEN Cell(i, "User") ELSE "")
                 ELSE IF script = "three"
                 THEN (IF user_col # "" THEN AsTitleStrip(Cell(i, user_col))
                       ELSE "Default User")
                 ELSE "",
        Month |-> MonthName(d),
        YearMonth |-> IF normal THEN YearMonth(d) ELSE 0]

\* df.dropna(subset=["Date"])
HasDate(r) == ~IsNaT(r.Date)
DropNaDate(t) == SelectSeq(t, HasDate)

\* new.py: df[df['Amount'] > 0]; a NaN compares false
IsPositive(r) == r.Amount.k = "num" /\ r.Amount.v > 0
PositiveOnly(t) == SelectSeq(t, IsPositive)

\* the step that follows the cleaning
AfterClean == IF script = "app" THEN "stats" ELSE "filter"

Clean ==
    /\ pc = "clean"
    /\ LET kept == DropNaDate([i \in DOMAIN rows |-> CleanRow(i)])
       IN IF script = "new"
          THEN \* comparing a column of strings with 0 raises TypeError
               IF AmountIsObject /\ kept # <<>>
               THEN df' = kept /\ pc' = "crashed"
               ELSE df' = PositiveOnly(kept) /\ pc' = AfterClean
          ELSE df' = kept /\ pc' = AfterClean
    /\ Stay /\ NoSavings /\ NoDisk
    /\ UNCHANGED <<columns, date_col, cat_col, amt_col, user_col, date_range, sel_cats,
                   sel_users, sel_months, filtered, monthly, category_totals,
                   total_spent, avg_monthly, budgets, budget_df, forecast_next,
                   daily_max, anomalies, export>>

(***************************************************************************)
(* Filters.                                                                *)
(***************************************************************************)
\* df[name]: the column of the table as a sequence
ColumnOf(t, name) == [i \in DOMAIN t |-> t[i][name]]

\* the predicates of the boolean indexings
InDates(t, lo, hi) == LET test(r) == lo <= r.Date /\ r.Date <= hi IN SelectSeq(t, test)
\* a category filter that keeps only the first row it finds
InCatsFirstOnly(t, cs) ==
    LET test(r) == r.Category \in cs
        kept == SelectSeq(t, test)
    IN IF kept = <<>> THEN kept ELSE <<Head(kept)>>
InCats(t, cs) == LET test(r) == r.Category \in cs IN SelectSeq(t, test)
InUsers(t, us) == LET test(r) == r.User \in us IN SelectSeq(t, test)
InMonths(t, ms) == LET test(r) == r.Month \in ms IN SelectSeq(t, test)

\* dates the date widgets are set to: the dates of the cleaned table, and a day
\* before all of them
DateChoices == Range(ColumnOf(df, "Date")) \cup {20221231}

MinDate(t) == CHOOSE d \in Range(ColumnOf(t, "Date")) :
                  \A e \in Range(ColumnOf(t, "Date")) : d <= e
MaxDate(t) == CHOOSE d \in Range(ColumnOf(t, "Date")) :
                  \A e \in Range(ColumnOf(t, "Date")) : e <= d

\* expense_tracker.py: date range within the data, category set, then the user
\* set only when it is non-empty (if sel_users:)
TrackerFiltered(t, lo, hi, cs, us) ==
    LET byDate == InDates(t, lo, hi)
        byCat == InCats(byDate, cs)
    IN IF us # {} THEN InUsers(byCat, us) ELSE byCat

\* What a date widget does when the table it takes its defaults from is empty
\* (the defaults are NaT) is decided by the widget library, not by the scripts:
\* the run either fails there or goes on with the empty table.
WidgetOutcomes(t) == IF t = <<>> THEN {"fails", "goes on"} ELSE {"goes on"}

FilterKeep ==
    /\ Stay /\ NoSavings /\ NoDisk
    /\ UNCHANGED <<columns, date_col, cat_col, amt_col, user_col, df, monthly,
                   category_totals, total_spent, avg_monthly, budgets, budget_df,
                   forecast_next, daily_max, anomalies, export>>

FilterTracker ==
    /\ pc = "filter" /\ script = "tracker"
    /\ \E w \in WidgetOutcomes(df) :
         IF df = <<>>
         THEN /\ pc' = IF w = "fails" THEN "crashed" ELSE "no_data"
              /\ UNCHANGED <<date_range, sel_cats, sel_users, sel_months, filtered>>
         ELSE \E lo, hi \in DateChoices :
              \E cs \in SUBSET Range(ColumnOf(df, "Category")) :
              \E us \in IF user_col # "" THEN SUBSET Range(ColumnOf(df, "User")) ELSE {{}} :
                /\ MinDate(df) <= lo /\ lo <= hi /\ hi <= MaxDate(df)
                /\ date_range' = <<lo, hi>>
                /\ sel_cats' = cs
                /\ sel_users' = us
                /\ filtered' = TrackerFiltered(df, lo, hi, cs, us)
                /\ pc' = IF filtered' = <<>> THEN "no_data" ELSE "stats"
                /\ UNCHANGED sel_months
    /\ FilterKeep

\* 3.py: user set, then a date range, a stop on an empty table, then the
\* categories of what is left, and a second stop
FilterThree ==
    /\ pc = "filter" /\ script = "three"
    /\ \E us \in SUBSET Range(ColumnOf(df, "User")) :
       LET byUser == InUsers(df, us) IN
       \E w \in WidgetOutcomes(byUser) :
         IF w = "fails"
         THEN /\ pc' = "crashed"
              /\ sel_users' = us
              /\ filtered' = byUser
              /\ UNCHANGED <<date_range, sel_cats, sel_months>>
         ELSE \E lo, hi \in DateChoices :
              LET byDate == InDates(byUser, lo, hi) IN
              \E cs \in SUBSET Range(ColumnOf(byDate, "Category")) :
                /\ lo <= hi
                /\ sel_users' = us
                /\ date_range' = <<lo, hi>>
                /\ IF byDate = <<>>
                   THEN /\ cs = {}
                        /\ sel_cats' = sel_cats
                        /\ filtered' = byDate
                        /\ pc' = "no_data"
                   ELSE /\ sel_cats' = cs
                        /\ filtered' = InCats(byDate, cs)
                        /\ pc' = IF filtered' = <<>> THEN "no_data" ELSE "stats"
                /\ UNCHANGED sel_months
    /\ FilterKeep

\* new.py: start and end date from two widgets, then the categories of what is
\* left; no stop on an empty table
FilterNew ==
    /\ pc = "filter" /\ script = "new"
    /\ \E w \in WidgetOutcomes(df) :
         IF w = "fails"
         THEN /\ pc' = "crashed"
              /\ UNCHANGED <<date_range, sel_cats, sel_users, sel_months, filtered>>
         ELSE \E lo, hi \in DateChoices :
              LET byDate == InDates(df, lo, hi) IN
              \E cs \in SUBSET Range(ColumnOf(byDate, "Category")) :
                /\ date_range' = <<lo, hi>>
                /\ sel_cats' = cs
                /\ filtered' = InCats(byDate, cs)
                /\ pc' = "stats"
                /\ UNCHANGED <<sel_users, sel_months>>
    /\ FilterKeep

\* xy.py: month names and categories, one boolean indexing
FilterXy ==
    /\ pc = "filter" /\ script = "xy"
    /\ \E ms \in SUBSET Range(ColumnOf(df, "Month")) :
       \E cs \in SUBSET Range(ColumnOf(df, "Category")) :
         /\ sel_months' = ms
         /\ sel_cats' = cs
         /\ filtered' = InCats(InMonths(df, ms), cs)
         /\ pc' = "stats"
         /\ UNCHANGED <<date_range, sel_users>>
    /\ FilterKeep

(***************************************************************************)
(* Aggregates.                                                             *)
(***************************************************************************)
\* the table the aggregates are computed from (app.py has no filters)
Data == IF script = "app" THEN df ELSE filtered

\* Series.sum(): NaN is skipped
AmountValue(r) == IF r.Amount.k = "num" THEN r.Amount.v ELSE 0
AmountsOf(t) == [i \in DOMAIN t |-> AmountValue(t[i])]
SumAmounts(t) == SumSeq(AmountsOf(t))

\* groupby(name)["Amount"].sum(): one row per key of the column, the keys in
\* dropped (NaN) left out
GroupSums(t, name, dropped) ==
    {[key |-> k, total |-> LET test(r) == r[name] = k IN SumAmounts(SelectSeq(t, test))] :
        k \in Range(ColumnOf(t, name)) \ dropped}

\* a sort in ascending order
SortValuesAsc(G) ==
    {p \in Orderings(G) : \A i, j \in DOMAIN p : i < j => p[i].total <= p[j].total}

\* sort_values(ascending=False): the outcomes of a sort that is not stable; rows
\* with equal totals come in either order
SortValuesDesc(G) ==
    {p \in Orderings(G) : \A i, j \in DOMAIN p : i < j => p[i].total >= p[j].total}

\* groupby("YearMonth")["Amount"].sum().sort_index()
MonthlyByYearMonth(t) ==
    LET G == GroupSums(t, "YearMonth", {}) IN SortedBy(G, [g \in G |-> g.key])

\* groupby('Month')['Amount'].sum(): the keys in the order of the month names
MonthlyByMonthName(t) ==
    LET G == GroupSums(t, "Month", {}) IN SortedBy(G, [g \in G |-> MonthRank(g.key)])

\* a grouping that drops the rows whose category cell was empty
CategoryGroupsDropEmpty(t) == GroupSums(t, "Category", {"Nan"})

\* groupby("Category")["Amount"].sum(): expense_tracker.py and 3.py have turned
\* the column into strings, so that no key is NaN there
CategoryGroups(t) ==
    IF script \in {"tracker", "three"}
    THEN GroupSums(t, "Category", {})
    ELSE GroupSums(t, "Category", {NaNCat})

\* mean of the period totals, with the guard the script puts before it
MeanOrZero(m) == IF Len(m) > 0 THEN Frac(SumSeq(ColumnOf(m, "total")), Len(m)) ELSE Frac(0, 1)
\* np.mean without a guard: NaN on an empty series
MeanOrNaN(m) == IF Len(m) > 0 THEN Frac(SumSeq(ColumnOf(m, "total")), Len(m)) ELSE NaNFrac

AfterStats ==
    CASE script = "tracker" -> "budget"
      [] script = "three" -> "export"
      [] OTHER -> "savings"

ComputeStats ==
    /\ pc = "stats"
    /\ IF script \in {"app", "xy"} /\ AmountIsObject /\ Data # <<>>
       THEN \* the sums of a column of strings are strings: np.mean raises TypeError
            /\ pc' = "crashed"
            /\ UNCHANGED <<monthly, category_totals, total_spent, avg_monthly>>
       ELSE /\ pc' = AfterStats
            /\ monthly' = IF script \in {"tracker", "three"}
                          THEN MonthlyByYearMonth(Data)
                          ELSE MonthlyByMonthName(Data)
            /\ category_totals' \in SortValuesDesc(CategoryGroups(Data))
            /\ total_spent' = Num(SumAmounts(Data))
            /\ avg_monthly' = IF script \in {"new", "app"}
                              THEN MeanOrNaN(monthly') ELSE MeanOrZero(monthly')
    /\ Stay /\ NoSavings /\ NoDisk
    /\ UNCHANGED <<columns, date_col, cat_col, amt_col, user_col, df, date_range,
                   sel_cats, sel_users, sel_months, filtered, budgets, budget_df,
                   forecast_next, daily_max, anomalies, export>>

(***************************************************************************)
(* Budget comparison (expense_tracker.py).                                 *)
(***************************************************************************)
\* amounts the budget widgets are set to (min_value=0.0)
BudgetChoices == {0, 15}

\* all_cats = sorted(df["Category"].unique())
AllCats ==
    LET S == Range(ColumnOf(df, "Category")) IN SortedBy(S, [c \in S |-> StrRank(c)])

\* category_totals.get(c, 0.0)
ActualOf(totals, c) ==
    IF \E i \in DOMAIN totals : totals[i].key = c
    THEN totals[CHOOSE i \in DOMAIN totals : totals[i].key = c].total
    ELSE 0

\* a budget column whose zeros are not replaced
ZeroKept(b) == Num(b)

\* budget_df["Budget"].replace({0: np.nan})
ZeroToNaN(b) == IF b = 0 THEN NaN ELSE Num(b)

\* Actual / Budget * 100 in floating point: NaN when the divisor is NaN or the
\* quotient is 0 / 0, infinite when a non-zero number is divided by 0
PctRaw(actual, b) ==
    IF b.k = "nan" THEN NaNFrac
    ELSE IF b.v = 0 THEN (IF actual = 0 THEN NaNFrac ELSE InfFrac)
    ELSE Frac(actual * 100, b.v)

\* fillna(0)
FillNa0(x) == IF x.k = "nan" THEN Frac(0, 1) ELSE x

Pct(actual, budget) == FillNa0(PctRaw(actual, ZeroToNaN(budget)))

\* a >= b for two quotients
FracGeq(a, b) ==
    IF a.k = "inf" THEN TRUE
    ELSE IF b.k = "inf" THEN FALSE
    ELSE a.v * b.den >= b.v * a.den

BudgetRows(totals, bs) ==
    {[Category |-> c, Actual |-> ActualOf(totals, c), Budget |-> bs[c],
      Pct |-> Pct(ActualOf(totals, c), bs[c])] : c \in DOMAIN bs}

\* sort_values("Pct", ascending=False)
SortPctDesc(B) ==
    {p \in Orderings(B) : \A i, j \in DOMAIN p : i < j => FracGeq(p[i].Pct, p[j].Pct)}

Budget ==
    /\ pc = "budget"
    /\ \E bs \in [Range(AllCats) -> BudgetChoices] :
         /\ budgets' = bs
         /\ budget_df' \in SortPctDesc(BudgetRows(category_totals, bs))
    /\ pc' = "savings"
    /\ Stay /\ NoSavings /\ NoDisk
    /\ UNCHANGED <<columns, date_col, cat_col, amt_col, user_col, df, date_range,
                   sel_cats, sel_users, sel_months, filtered, monthly, category_totals,
                   total_spent, avg_monthly, forecast_next, daily_max, anomalies, export>>

(***************************************************************************)
(* Savings.                                                                *)
(***************************************************************************)
\* values entered in st.number_input(min_value=0.0) for the income and the goal
IncomeChoices == {0, 15}
GoalChoices == {0, 5}

\* total_budget = sum(budgets.values())
TotalBudget(bs) == SumSeq([i \in DOMAIN AllCats |-> bs[AllCats[i]]])

\* expense_tracker.py: savings = total_budget - total_spent
BudgetSavings(bs, spent) == Frac(TotalBudget(bs) - spent.v, 1)

\* (savings / total_budget * 100) if total_budget > 0 else 0
BudgetSavingsPct(bs, sv) ==
    IF TotalBudget(bs) > 0 THEN Frac(sv.v * 100, sv.den * TotalBudget(bs)) ELSE Frac(0, 1)

\* "Goal Met" if savings >= savings_goal else "Below Goal"
GoalReached(sv, goal) == sv.v >= goal * sv.den
GoalStatus(sv, goal) == IF GoalReached(sv, goal) THEN "Goal Met" ELSE "Below Goal"

\* new.py, app.py, xy.py: savings = income - avg_expense
IncomeSavings(inc, avg) ==
    IF avg.k = "nan" THEN NaNFrac ELSE Frac(inc * avg.den - avg.v, avg.den)

\* (savings / income) * 100 if income > 0 else 0
IncomeSavingsPct(inc, sv) ==
    IF inc > 0
    THEN (IF sv.k = "nan" THEN NaNFrac ELSE Frac(sv.v * 100, sv.den * inc))
    ELSE Frac(0, 1)

AfterSavings ==
    CASE script = "tracker" -> "forecast"
      [] script = "new" -> "dailymax"
      [] script = "xy" -> "progress"
      [] OTHER -> "report"

Savings ==
    /\ pc = "savings"
    /\ IF script = "tracker"
       THEN \E g \in GoalChoices :
              /\ savings_goal' = g
              /\ income' = income
              /\ savings' = BudgetSavings(budgets, total_spent)
              /\ savings_pct' = BudgetSavingsPct(budgets, savings')
              /\ goal_status' = GoalStatus(savings', g)
       ELSE \E inc \in IncomeChoices :
              /\ income' = inc
              /\ savings' = IncomeSavings(inc, avg_monthly)
              /\ savings_pct' = IncomeSavingsPct(inc, savings')
              /\ UNCHANGED <<savings_goal, goal_status>>
    /\ pc' = AfterSavings
    /\ Stay /\ NoDisk
    /\ UNCHANGED <<columns, date_col, cat_col, amt_col, user_col, df, date_range,
                   sel_cats, sel_users, sel_months, filtered, monthly, category_totals,
                   total_spent, avg_monthly, budgets, budget_df, forecast_next,
                   daily_max, anomalies, export, goal_message, progress>>

(***************************************************************************)
(* Progress indicator.                                                     *)
(***************************************************************************)
\* min(a, b) of two quotients; NaN when a is NaN
FracMin(a, b) ==
    IF a.k = "nan" THEN a ELSE IF a.v * b.den <= b.v * a.den THEN a ELSE b

\* int(x): the quotient cut towards zero
IntOf(x) == IF x.v >= 0 THEN x.v \div x.den ELSE -((-x.v) \div x.den)

\* the value each script hands to st.progress; "none" when it does not call it
\* expense_tracker.py: min(savings_pct / 100, 1.0)
TrackerProgress(pct) == FracMin(Frac(pct.v, pct.den * 100), Frac(1, 1))
\* new.py: progress = min((savings / goal) * 100, 100); st.progress(progress / 100)
GoalProgress(sv, goal) ==
    IF goal > 0
    THEN LET pr == FracMin(IF sv.k = "nan" THEN NaNFrac
                           ELSE Frac(sv.v * 100, sv.den * goal), Frac(100, 1))
         IN IF pr.k = "nan" THEN NaNFrac ELSE Frac(pr.v, pr.den * 100)
    ELSE NoFrac
\* xy.py: if income > 0: st.progress(int(min(savings_percentage, 100)))
IncomeProgress(inc, pct) ==
    IF inc > 0
    THEN [k |-> "int", v |-> IntOf(FracMin(pct, Frac(100, 1))), den |-> 1]
    ELSE NoFrac

\* the range st.progress documents: 0.0 to 1.0 for a float, 0 to 100 for an int
InProgressRange(p) ==
    CASE p.k = "num" -> 0 <= p.v /\ p.v <= p.den
      [] p.k = "int" -> 0 <= p.v /\ p.v <= 100
      [] OTHER -> FALSE

\* What st.progress does with a value outside its range is decided by the
\* widget library, not by the scripts: the run either fails there or goes on.
ProgressOutcomes(p) ==
    IF p.k = "none" \/ InProgressRange(p) THEN {"goes on"} ELSE {"fails", "goes on"}

\* expense_tracker.py: st.success(...) if savings >= savings_goal else st.warning(...)
GoalMessage(sv, goal) == IF GoalReached(sv, goal) THEN "met your savings goal" ELSE "keep saving"

AfterProgress ==
    CASE script = "tracker" -> "anomaly"
      [] script = "new" -> "forecast"
      [] OTHER -> "report"

Progress ==
    /\ pc = "progress"
    /\ \E g \in IF script = "new" THEN GoalChoices ELSE {savings_goal} :
         LET p == CASE script = "tracker" -> TrackerProgress(savings_pct)
                    [] script = "new" -> GoalProgress(savings, g)
                    [] OTHER -> IncomeProgress(income, savings_pct)
         IN /\ savings_goal' = g
            /\ progress' = p
            /\ \E w \in ProgressOutcomes(p) :
                 IF w = "fails"
                 THEN pc' = "crashed" /\ goal_message' = goal_message
                 ELSE /\ pc' = AfterProgress
                      /\ goal_message' = IF script = "tracker"
                                         THEN GoalMessage(savings, g) ELSE goal_message
    /\ Stay /\ NoDisk
    /\ UNCHANGED <<columns, date_col, cat_col, amt_col, user_col, df, date_range,
                   sel_cats, sel_users, sel_months, filtered, monthly, category_totals,
                   total_spent, avg_monthly, budgets, budget_df, forecast_next,
                   daily_max, anomalies, export, income, savings, savings_pct,
                   goal_status>>

(***************************************************************************)
(* Most expensive day (new.py).                                            *)
(***************************************************************************)
\* df.groupby('Date')['Amount'].sum().idxmax(): the first date, in date order,
\* whose sum is the largest
IdxMaxDay(t) ==
    LET G == GroupSums(t, "Date", {})
    IN (CHOOSE g \in G : \A h \in G : g.total > h.total
                                      \/ (g.total = h.total /\ g.key <= h.key)).key

DailyMax ==
    /\ pc = "dailymax"
    /\ IF filtered = <<>>
       THEN \* idxmax of an empty series raises ValueError
            pc' = "crashed" /\ daily_max' = daily_max
       ELSE pc' = "progress" /\ daily_max' = IdxMaxDay(filtered)
    /\ Stay /\ NoSavings /\ NoDisk
    /\ UNCHANGED <<columns, date_col, cat_col, amt_col, user_col, df, date_range,
                   sel_cats, sel_users, sel_months, filtered, monthly, category_totals,
                   total_spent, avg_monthly, budgets, budget_df, forecast_next,
                   anomalies, export>>

(***************************************************************************)
(* Forecast.                                                               *)
(***************************************************************************)
\* expense_tracker.py forecasts from this many periods on
MinForecastPeriods == 3

RECURSIVE SumProd(_, _)
SumProd(a, b) == IF a = <<>> THEN 0 ELSE Head(a) * Head(b) + SumProd(Tail(a), Tail(b))

\* the least-squares line through (xs[i], ys[i]), evaluated at x0; when all xs
\* are equal the minimum-norm fit is the constant line through the mean
LeastSquaresAt(xs, ys, x0) ==
    LET n == Len(xs)
        sx == SumSeq(xs)
        sy == SumSeq(ys)
        d == n * SumProd(xs, xs) - sx * sx
        slope == n * SumProd(xs, ys) - sx * sy
    IN IF d = 0 THEN Frac(sy, n)
       ELSE Frac(sy * d - slope * sx + slope * x0 * n, n * d)

\* the fitted line read at the last period instead of the next one
TrendForecastAtLast(m) ==
    IF Len(m) >= MinForecastPeriods
    THEN LeastSquaresAt([i \in DOMAIN m |-> i - 1], ColumnOf(m, "total"), Len(m) - 1)
    ELSE NoFrac

\* np.polyfit(np.arange(len(monthly)), monthly.values, 1) at len(monthly)
TrendForecast(m) ==
    IF Len(m) >= MinForecastPeriods
    THEN LeastSquaresAt([i \in DOMAIN m |-> i - 1], ColumnOf(m, "total"), Len(m))
    ELSE NoFrac

MonthNumsOf(t) == [i \in DOMAIN t |-> MonthNum(t[i].Date)]
MaxOf(s) == CHOOSE x \in Range(s) : \A y \in Range(s) : y <= x

\* new.py: LinearRegression of the amounts of the transactions on their month
\* numbers, predicted at the largest month number + 1; fitting no sample raises,
\* which the except clause turns into "not enough data"
RegressionPrediction(t) ==
    IF t = <<>> THEN NoFrac
    ELSE LeastSquaresAt(MonthNumsOf(t), AmountsOf(t),
                        MaxOf(MonthNumsOf(t)) + 1)

Forecast ==
    /\ pc = "forecast"
    /\ forecast_next' = IF script = "tracker" THEN TrendForecast(monthly)
                        ELSE RegressionPrediction(filtered)
    /\ pc' = IF script = "tracker" THEN "progress" ELSE "report"
    /\ Stay /\ NoSavings /\ NoDisk
    /\ UNCHANGED <<columns, date_col, cat_col, amt_col, user_col, df, date_range,
                   sel_cats, sel_users, sel_months, filtered, monthly, category_totals,
                   total_spent, avg_monthly, budgets, budget_df, daily_max,
                   anomalies, export>>

(***************************************************************************)
(* Anomaly detection (expense_tracker.py).                                 *)
(***************************************************************************)
\* anomalies are the rows with |zscore| > ZThresholdNum / ZThresholdDen = 2.5
ZThresholdNum == 5
ZThresholdDen == 2

SquaresOf(t) == [i \in DOMAIN t |-> AmountValue(t[i]) * AmountValue(t[i])]

\* stats.zscore within the category of r (population standard deviation):
\* z = (x - S/n) / sqrt(Q/n - (S/n)^2) = (n*x - S) / sqrt(n*Q - S*S),
\* kept as the numerator and the square of the denominator; NaN when the
\* amounts of the category are all equal (0 / 0)
ZScoreOf(t, r) ==
    LET test(q) == q.Category = r.Category
        g == SelectSeq(t, test)
        n == Len(g)
        sm == SumAmounts(g)
        den2 == n * SumSeq(SquaresOf(g)) - sm * sm
    IN IF den2 = 0 THEN [k |-> "nan", num |-> 0, den2 |-> 0]
       ELSE [k |-> "num", num |-> n * AmountValue(r) - sm, den2 |-> den2]

\* filtered["zscore"] = filtered.groupby("Category")["Amount"].transform(zscore)
WithZScore(t) ==
    [i \in DOMAIN t |->
        [idx |-> t[i].idx, Date |-> t[i].Date, Category |-> t[i].Category,
         Amount |-> t[i].Amount, User |-> t[i].User, Month |-> t[i].Month,
         YearMonth |-> t[i].YearMonth, zscore |-> ZScoreOf(t, t[i])]]

\* a threshold of 1.5 in place of 2.5
IsAnomalyAbove3Halves(z) == z.k = "num" /\ 4 * z.num * z.num > 9 * z.den2

\* zscore.abs() > 2.5; a comparison with NaN is false
IsAnomaly(z) ==
    /\ z.k = "num"
    /\ ZThresholdDen * ZThresholdDen * z.num * z.num
         > ZThresholdNum * ZThresholdNum * z.den2

Anomaly ==
    /\ pc = "anomaly"
    /\ filtered' = WithZScore(filtered)
    /\ anomalies' = {filtered'[i].idx : i \in {j \in DOMAIN filtered' :
                                                 IsAnomaly(filtered'[j].zscore)}}
    /\ pc' = "export"
    /\ Stay /\ NoSavings /\ NoDisk
    /\ UNCHANGED <<columns, date_col, cat_col, amt_col, user_col, df, date_range,
                   sel_cats, sel_users, sel_months, monthly, category_totals,
                   total_spent, avg_monthly, budgets, budget_df, forecast_next,
                   daily_max, export>>

(***************************************************************************)
(* Export.                                                                 *)
(***************************************************************************)
Sheet(n, t) == [name |-> n, table |-> t]

\* pd.DataFrame({"Category": summary.index, "Total Spent": summary.values})
SummaryTable(totals) ==
    [i \in DOMAIN totals |-> [Category |-> totals[i].key, TotalSpent |-> totals[i].total]]

\* 3.py: the Summary sheet
MetricsTable(total, avg) ==
    << [Metric |-> "Total Spent", Value |-> total],
       [Metric |-> "Avg Monthly", Value |-> avg] >>

\* the scripts that write their report to excel_path and read it back
ReportScripts == {"new", "app", "xy"}

\* output.to_excel(excel_path, index=False)
WriteReport ==
    /\ pc = "report"
    /\ disk' = FileOf(SummaryTable(category_totals))
    /\ pc' = "export"
    /\ Stay /\ NoSavings
    /\ UNCHANGED <<columns, date_col, cat_col, amt_col, user_col, df, date_range,
                   sel_cats, sel_users, sel_months, filtered, monthly, category_totals,
                   total_spent, avg_monthly, budgets, budget_df, forecast_next,
                   daily_max, anomalies, export, other>>

\* tracker and 3.py build the workbook in memory; the other scripts hand the
\* download button the file they open at excel_path
Exported ==
    CASE script = "tracker" ->
           [csv |-> filtered, sheets |-> <<Sheet("Filtered", filtered)>>]
      [] script = "three" ->
           [csv |-> <<>>,
            sheets |-> <<Sheet("Expenses", filtered),
                         Sheet("Summary", MetricsTable(total_spent, avg_monthly))>>]
      [] script = "new" ->
           [csv |-> filtered, sheets |-> <<Sheet("Sheet1", disk.table)>>]
      [] OTHER ->
           [csv |-> <<>>, sheets |-> <<Sheet("Sheet1", disk.table)>>]

Export ==
    /\ pc = "export"
    /\ export' = Exported
    /\ pc' = "done"
    /\ Stay /\ NoSavings /\ NoDisk
    /\ UNCHANGED <<columns, date_col, cat_col, amt_col, user_col, df, date_range,
                   sel_cats, sel_users, sel_months, filtered, monthly, category_totals,
                   total_spent, avg_monthly, budgets, budget_df, forecast_next,
                   daily_max, anomalies>>

Next == ColumnCheck \/ Clean \/ FilterTracker \/ FilterThree \/ FilterNew \/ FilterXy
        \/ ComputeStats \/ Budget \/ Savings \/ DailyMax \/ Progress \/ Forecast
        \/ Anomaly \/ WriteReport \/ Export

Spec == Init /\ [][Next]_vars

\* the runs on the tables of the anomaly family
SpecAnomaly == InitAnomaly /\ [][Next]_vars

(***************************************************************************)
(* Two runs.  The sessions of one server run the script in one process and *)
(* one working directory.  The second run is followed from the point where *)
(* it has computed its category totals; before that it touches nothing the *)
(* first run can see.                                                      *)
(***************************************************************************)
MaxSharedRows == 1  \* longest table of the first run when a second run is present

TwoRunInputs ==
    {Input(GoodHeaders, r) : r \in SeqsUpTo(GeneralRows, MaxSharedRows)}
    \cup {Input(<<"Date", "Notes", "Amount">>, <<<<"2024-01-05", "food", "10">>>>)}

\* category_summary of the second run, whose upload is the one transaction
\* 2024-03-05, Travel, 30
OtherTotals == <<[key |-> "Travel", total |-> 30]>>

InitTwoRuns ==
    /\ Start(TwoRunInputs, Scripts)
    /\ other = [pc |-> "report", totals |-> OtherTotals, report |-> NoFile]

\* the variables of the first run
FirstRun ==
    <<script, pc, headers, rows, columns, date_col, cat_col, amt_col, user_col, df,
      date_range, sel_cats, sel_users, sel_months, filtered, monthly, category_totals,
      total_spent, avg_monthly, budgets, budget_df, forecast_next, daily_max,
      anomalies, export, income, savings_goal, savings, savings_pct, goal_status,
      goal_message, progress>>

\* the second run: output.to_excel(excel_path, index=False)
OtherWriteReport ==
    /\ script \in ReportScripts
    /\ other.pc = "report"
    /\ disk' = FileOf(SummaryTable(other.totals))
    /\ other' = [other EXCEPT !.pc = "export"]
    /\ UNCHANGED FirstRun

\* the second run: with open(excel_path, "rb") as f: st.download_button(data=f)
OtherExport ==
    /\ other.pc = "export"
    /\ other' = [other EXCEPT !.pc = "done", !.report = disk]
    /\ UNCHANGED disk
    /\ UNCHANGED FirstRun

NextTwoRuns == Next \/ OtherWriteReport \/ OtherExport

SpecTwoRuns == InitTwoRuns /\ [][NextTwoRuns]_vars

(***************************************************************************)
(* Properties.                                                             *)
(***************************************************************************)
\* the steps after the column check
AfterColumns == {"clean", "filter", "stats", "budget", "savings", "dailymax",
                 "progress", "forecast", "anomaly", "report", "export", "done",
                 "no_data", "crashed"}
\* the steps after the cleaning
AfterCleaning == AfterColumns \ {"clean"}
\* the steps after the filters
AfterFilter == AfterCleaning \ {"filter"}
\* the steps after the aggregates
AfterAggregates == {"budget", "savings", "dailymax", "progress", "forecast", "anomaly",
                    "report", "export", "done"}

\* the aliases the specification documents for the three required fields
DocumentedAliases ==
    [date |-> {"date", "transaction date", "txn_date"},
     category |-> {"category", "cat"},
     amount |-> {"amount", "amt", "value"}]

\* every required field has a header that is, trimmed and case-insensitively,
\* one of its aliases
HeadersResolve ==
    \A f \in DOMAIN DocumentedAliases :
        \E i \in DOMAIN headers : Lower(Strip(headers[i])) \in DocumentedAliases[f]

NothingProduced ==
    /\ df = <<>> /\ filtered = <<>> /\ monthly = <<>> /\ category_totals = <<>>
    /\ total_spent = None /\ avg_monthly = NoFrac /\ budget_df = <<>>
    /\ forecast_next = NoFrac /\ anomalies = {}
    /\ export = [csv |-> <<>>, sheets |-> <<>>]

\* C1: when the headers do not resolve date, category and amount, the run is
\* at the column check or has stopped in the schema-error state; no step after
\* the column check is reached unless the three columns were resolved, and the
\* schema-error state holds no result of any later step.
C1_SchemaErrorStopsRun ==
    /\ ~HeadersResolve => pc \in {"columns", "schema_error"}
    /\ pc \in AfterColumns => date_col # "" /\ cat_col # "" /\ amt_col # ""
    /\ pc = "schema_error" => NothingProduced

\* C1 witness: a run stopped in the schema-error state on unresolvable headers
C1_Witness == pc = "schema_error" /\ ~HeadersResolve /\ script = "tracker"

\* the date and the amount of the i-th data line parse / do not parse
DateParses(i) == ~IsNaT(ToDatetime(Cell(i, "Date")))
AmountParses(i) == ReadAmount(Cell(i, "Amount")).k = "num"

\* C2: in expense_tracker.py, 3.py and new.py no row with an unparseable date
\* is in the cleaned table the aggregates are computed from, and every row
\* whose date parses and whose amount does not is kept with amount 0.
C2_BadDatesDroppedBadAmountsZero ==
    (script \in {"tracker", "three", "new"} /\ pc \in AfterCleaning) =>
        /\ \A j \in DOMAIN df : DateParses(df[j].idx)
        /\ \A i \in DOMAIN rows :
              (DateParses(i) /\ ~AmountParses(i)) =>
                  \E j \in DOMAIN df : df[j].idx = i /\ df[j].Amount = Num(0)

\* C3: in expense_tracker.py and 3.py the per-category totals and the
\* per-period totals each add up to the total spent, which is the sum of the
\* filtered amounts, and every filtered transaction falls in exactly one listed
\* category and one listed period.
C3_TotalsPartitionSum ==
    (script \in {"tracker", "three"} /\ pc \in AfterAggregates) =>
        /\ total_spent = Num(SumSeq([i \in DOMAIN filtered |-> filtered[i].Amount.v]))
        /\ SumSeq(ColumnOf(category_totals, "total")) = total_spent.v
        /\ SumSeq(ColumnOf(monthly, "total")) = total_spent.v
        /\ \A i \in DOMAIN filtered :
              /\ Cardinality({j \in DOMAIN category_totals :
                                category_totals[j].key = filtered[i].Category}) = 1
              /\ Cardinality({j \in DOMAIN monthly :
                                monthly[j].key = YearMonth(filtered[i].Date)}) = 1

\* C3 witness: aggregates over two categories and two periods with a non-zero total
C3_Witness ==
    /\ script \in {"tracker", "three"} /\ pc \in AfterAggregates
    /\ Len(category_totals) = 2 /\ Len(monthly) = 2 /\ total_spent.v > 0

\* the filters, not the data, left no transaction
FiltersLeftNothing ==
    /\ pc \in AfterFilter
    /\ df # <<>> /\ filtered = <<>> /\ date_range # <<0, 0>>

\* C4: in 3.py, expense_tracker.py and new.py, when the filters leave no
\* transaction the run neither fails nor runs through to the export: it ends
\* in the no-matching-data state.
C4_EmptyFilterResultIsNoData ==
    (script \in {"tracker", "three", "new"} /\ FiltersLeftNothing) =>
        pc \notin {"crashed", "done"}

\* the year-months of the filtered transactions
Periods == {YearMonth(filtered[i].Date) : i \in DOMAIN filtered}

\* C5: in expense_tracker.py and new.py, once the forecast step is done, a
\* forecast value is present exactly when the filtered data spans at least 3
\* year-months.
C5_ForecastIffThreePeriods ==
    (script \in {"tracker", "new"} /\ pc \in {"anomaly", "export", "done"}) =>
        (forecast_next.k = "num" <=> Cardinality(Periods) >= 3)

\* the rows of the filtered table in category c, and their amounts as a bag
RowsOfCategory(c) == {i \in DOMAIN filtered : filtered[i].Category = c}
CountAmount(c, a) == Cardinality({i \in RowsOfCategory(c) : filtered[i].Amount.v = a})
AllAmountsEqual(c) ==
    \A i, j \in RowsOfCategory(c) : filtered[i].Amount.v = filtered[j].Amount.v

FilteredCategories == {filtered[i].Category : i \in DOMAIN filtered}

\* C6: in expense_tracker.py, once anomaly detection is done, no transaction
\* of a category whose amounts are all equal is flagged, and the filtered table
\* that is displayed and exported holds no NaN z-score.
C6_ZeroVarianceNotFlaggedNoNaN ==
    (script = "tracker" /\ pc \in {"export", "done"}) =>
        /\ \A c \in FilteredCategories : AllAmountsEqual(c) =>
              \A i \in RowsOfCategory(c) : filtered[i].idx \notin anomalies
        /\ \A i \in DOMAIN filtered : filtered[i].zscore.k # "nan"
        /\ \A i \in DOMAIN export.csv : export.csv[i].zscore.k # "nan"

\* the amounts of category c are exactly 10, 10, 10, 1000
IsTenTenTenThousand(c) ==
    /\ Cardinality(RowsOfCategory(c)) = 4
    /\ CountAmount(c, 10) = 3 /\ CountAmount(c, 1000) = 1

\* C7 as stated: for a category with the amounts 10, 10, 10, 1000 the 1000
\* transaction is flagged and the three 10 transactions are not.
C7_ThousandIsFlagged ==
    (script = "tracker" /\ pc \in {"export", "done"}) =>
        \A c \in FilteredCategories : IsTenTenTenThousand(c) =>
            \A i \in RowsOfCategory(c) :
                (filtered[i].idx \in anomalies) <=> (filtered[i].Amount.v = 1000)

\* C7 amended: for a category with the amounts 10, 10, 10, 1000 the z-score of
\* the 1000 transaction is sqrt(3) (z * z = 3) and that of each 10 transaction
\* is -1/sqrt(3), none above 2.5 in absolute value: no transaction of the
\* category is flagged.
C7_ThousandIsNotFlagged ==
    (script = "tracker" /\ pc \in {"export", "done"}) =>
        \A c \in FilteredCategories : IsTenTenTenThousand(c) =>
            \A i \in RowsOfCategory(c) :
                LET z == filtered[i].zscore IN
                /\ filtered[i].idx \notin anomalies
                /\ z.k = "num"
                /\ filtered[i].Amount.v = 1000 => z.num > 0 /\ z.num * z.num = 3 * z.den2
                /\ filtered[i].Amount.v = 10 => z.num < 0 /\ 3 * z.num * z.num = z.den2

\* C7 witness: anomaly detection has run on a category with 10, 10, 10, 1000
C7_Witness ==
    /\ script = "tracker" /\ pc = "done"
    /\ \E c \in FilteredCategories : IsTenTenTenThousand(c)

\* C8: in expense_tracker.py every row of the budget table has a finite
\* percent-of-budget: actual / budget * 100 when the budget is positive and 0
\* when the budget is 0, where actual is the category's total of the filtered
\* transactions.
C8_BudgetPercent ==
    (script = "tracker" /\ pc \in {"forecast", "anomaly", "export", "done"}) =>
        /\ {budget_df[i].Category : i \in DOMAIN budget_df} = Range(AllCats)
        /\ \A i \in DOMAIN budget_df :
              LET b == budget_df[i] IN
              /\ b.Actual = LET test(r) == r.Category = b.Category
                            IN SumAmounts(SelectSeq(filtered, test))
              /\ b.Budget = budgets[b.Category]
              /\ b.Pct.k = "num" /\ b.Pct.den > 0
              /\ b.Budget > 0 => b.Pct.v * b.Budget = b.Actual * 100 * b.Pct.den
              /\ b.Budget = 0 => b.Pct.v = 0

\* C8 witness: a budget table with a category spent on against a budget of 0
\* and a category spent on against a positive budget
C8_Witness ==
    /\ script = "tracker" /\ pc = "done"
    /\ \E i, j \in DOMAIN budget_df :
          /\ budget_df[i].Budget = 0 /\ budget_df[i].Actual > 0
          /\ budget_df[j].Budget > 0 /\ budget_df[j].Actual > 0

\* position of the first filtered transaction of category c
FirstSeen(c) == CHOOSE i \in RowsOfCategory(c) : \A j \in RowsOfCategory(c) : i <= j

Descending(totals) ==
    \A i, j \in DOMAIN totals : i < j => totals[i].total >= totals[j].total

\* C9 as stated: in expense_tracker.py and 3.py the category totals are in
\* descending order of total, and categories with equal totals are in the
\* order in which they are first seen in the rows.
C9_TiesInFirstSeenOrder ==
    (script \in {"tracker", "three"} /\ pc \in AfterAggregates) =>
        /\ Descending(category_totals)
        /\ \A i, j \in DOMAIN category_totals :
              (i < j /\ category_totals[i].total = category_totals[j].total) =>
                  FirstSeen(category_totals[i].key) < FirstSeen(category_totals[j].key)

\* C9 amended: in expense_tracker.py and 3.py the category totals list every
\* category of the filtered transactions once, with its total, in descending
\* order of total; the order of categories with equal totals is not fixed.
C9_DescendingTotals ==
    (script \in {"tracker", "three"} /\ pc \in AfterAggregates) =>
        /\ Descending(category_totals)
        /\ {category_totals[i].key : i \in DOMAIN category_totals} = FilteredCategories
        /\ Len(category_totals) = Cardinality(FilteredCategories)

\* C9 witness: two categories with equal totals, listed against first-seen order
C9_Witness ==
    /\ script \in {"tracker", "three"} /\ pc \in AfterAggregates
    /\ Len(category_totals) = 2
    /\ category_totals[1].total = category_totals[2].total
    /\ FirstSeen(category_totals[2].key) < FirstSeen(category_totals[1].key)

\* the filtered transactions a row of the monthly totals sums up
RowsOfMonthlyKey(k) ==
    {i \in DOMAIN filtered :
        IF script = "xy" THEN filtered[i].Month = k ELSE filtered[i].YearMonth = k}

\* C10: in expense_tracker.py and xy.py the monthly totals have one row per
\* year-month of the filtered transactions, and the rows are in chronological
\* order: every transaction of a row is of an earlier year-month than every
\* transaction of a later row.
C10_OneRowPerYearMonthInOrder ==
    (script \in {"tracker", "xy"} /\ pc \in AfterAggregates) =>
        /\ Len(monthly) = Cardinality(Periods)
        /\ \A i, j \in DOMAIN monthly : i < j =>
              \A a \in RowsOfMonthlyKey(monthly[i].key) :
              \A b \in RowsOfMonthlyKey(monthly[j].key) :
                  YearMonth(filtered[a].Date) < YearMonth(filtered[b].Date)

(***************************************************************************)
(* Column resolution.                                                      *)
(***************************************************************************)
\* the aliases the specification documents for each field, in priority order
FieldAliases ==
    [date |-> <<"date", "transaction date", "txn_date">>,
     category |-> <<"category", "cat">>,
     amount |-> <<"amount", "amt", "value">>,
     user |-> <<"user", "name", "person">>]

\* positions of the headers that are, case-insensitively (and trimmed when
\* trim is set), the first alias of the list that any header matches; {0} when
\* no header matches an alias
RECURSIVE AliasMatches(_, _, _)
AliasMatches(aliases, hs, trim) ==
    IF aliases = <<>> THEN {0}
    ELSE LET M == {i \in DOMAIN hs :
                      Lower(IF trim THEN Strip(hs[i]) ELSE hs[i]) = Head(aliases)}
         IN IF M # {} THEN M ELSE AliasMatches(Tail(aliases), hs, trim)

\* the column each script has resolved for the field (0 = none)
ResolvedColumn ==
    [date |-> date_col, category |-> cat_col, amount |-> amt_col, user |-> user_col]
ResolvedIndex(f) ==
    IndexOf(IF script = "tracker" THEN headers ELSE columns, ResolvedColumn[f])

\* C11: in expense_tracker.py and 3.py, once the column check has run, each
\* of date, category, amount and user is resolved to the column whose header
\* is, case-insensitively, the first alias in priority order that a header
\* equals (surrounding blanks of the header may be ignored or not), and to no
\* column when no header equals an alias; so every documented alias is
\* recognised and a header that only contains an alias is not.
C11_FirstAliasExactMatch ==
    (pc # "columns" /\ script \in {"tracker", "three"}) =>
        \A f \in DOMAIN FieldAliases :
            ResolvedIndex(f) \in AliasMatches(FieldAliases[f], headers, FALSE)
                                 \cup AliasMatches(FieldAliases[f], headers, TRUE)

(***************************************************************************)
(* Trend forecast.                                                         *)
(***************************************************************************)
\* sum over the periods i = 1..n of (2(i-1) - n + 1) * total of period i:
\* twice the sum of (x - mean of x) * y for x = 0..n-1
RECURSIVE CentredSum(_, _)
CentredSum(m, i) ==
    IF i > Len(m) THEN 0
    ELSE (2 * (i - 1) - Len(m) + 1) * m[i].total + CentredSum(m, i + 1)

\* the value at x = n of the least-squares line through (0, y1) .. (n-1, yn)
\* is  mean(y) + slope * (n+1)/2  with  slope = 6 * CentredSum / (n (n^2-1)),
\* that is  ((n-1) * sum(y) + 3 * CentredSum) / (n (n-1))
IsLineValueAtNext(f, m) ==
    LET n == Len(m)
    IN /\ f.k = "num"
       /\ f.v * n * (n - 1) =
              f.den * ((n - 1) * SumSeq(ColumnOf(m, "total")) + 3 * CentredSum(m, 1))

MonthlyIs100To300 ==
    monthly = <<[key |-> 202401, total |-> 100], [key |-> 202402, total |-> 200],
                [key |-> 202403, total |-> 300]>>

\* C12: in expense_tracker.py, once the forecast step is done on at least 3
\* periods, the forecast is the value at x = n of the least-squares line
\* through the period totals taken in chronological order at x = 0..n-1; for
\* the totals [100, 200, 300] of 2024-01..2024-03 it is 400.
C12_ForecastIsLineAtNextPeriod ==
    (script = "tracker" /\ pc \in {"anomaly", "export", "done"}
       /\ Len(monthly) >= MinForecastPeriods) =>
        /\ IsLineValueAtNext(forecast_next, monthly)
        /\ \A i, j \in DOMAIN monthly : i < j => monthly[i].key < monthly[j].key
        /\ MonthlyIs100To300 => forecast_next.v = 400 * forecast_next.den

\* C12 witness: the forecast step is done on the totals [100, 200, 300]
C12_Witness ==
    /\ script = "tracker" /\ pc = "anomaly" /\ MonthlyIs100To300
    /\ forecast_next.k = "num" /\ forecast_next.v = 400 * forecast_next.den

(***************************************************************************)
(* Budget-based savings (expense_tracker.py).                              *)
(***************************************************************************)
\* the steps of expense_tracker.py after the savings are computed
AfterSavingsSteps == {"forecast", "progress", "anomaly", "export", "done"}

\* sum of the budgets of the categories in C
RECURSIVE BudgetOver(_)
BudgetOver(C) ==
    IF C = {} THEN 0
    ELSE LET c == CHOOSE x \in C : TRUE IN budgets[c] + BudgetOver(C \ {c})

\* budgets minus spending over one and the same set of transactions: the
\* filtered ones with the budgets of their categories, or all the cleaned ones
\* with all the budgets
ConsistentSavings ==
    {BudgetOver(FilteredCategories) - SumAmounts(filtered),
     BudgetOver(DOMAIN budgets) - SumAmounts(df)}

\* C13: in expense_tracker.py, once the savings are computed, savings is the
\* total budget minus the total spent, both taken over the same transactions;
\* savings percent is savings / total budget * 100, and 0 when the total
\* budget is 0; the KPI status is "Goal Met" exactly when savings >= goal; and
\* the message of the savings tab, once shown, says the same as the status.
C13_BudgetSavingsAndGoal ==
    (script = "tracker" /\ pc \in AfterSavingsSteps) =>
        /\ savings.k = "num" /\ savings.den = 1 /\ savings.v \in ConsistentSavings
        /\ savings_pct.k = "num"
        /\ IF BudgetOver(DOMAIN budgets) = 0 THEN savings_pct.v = 0
           ELSE savings_pct.v * BudgetOver(DOMAIN budgets)
                    = savings.v * 100 * savings_pct.den
        /\ goal_status = "Goal Met" <=> savings.v >= savings_goal
        /\ goal_message # "" =>
               (goal_message = "met your savings goal" <=> goal_status = "Goal Met")

(***************************************************************************)
(* Order of the filters.                                                   *)
(***************************************************************************)
\* the three filters with the parameters chosen in the run
ByDates(t) == InDates(t, date_range[1], date_range[2])
ByCats(t) == InCats(t, sel_cats)
\* expense_tracker.py applies its user filter only to a non-empty selection
ByUsers(t) ==
    IF script = "tracker" /\ sel_users = {} THEN t ELSE InUsers(t, sel_users)

\* the cleaned table filtered in each of the six orders
SixOrders ==
    { ByDates(ByCats(ByUsers(df))), ByDates(ByUsers(ByCats(df))),
      ByCats(ByDates(ByUsers(df))), ByCats(ByUsers(ByDates(df))),
      ByUsers(ByDates(ByCats(df))), ByUsers(ByCats(ByDates(df))) }

\* C14: in expense_tracker.py and 3.py, once the filters are applied, the
\* filtered table holds the transactions (rows of the upload, by position)
\* that the user, category and date filters give in each of the six orders
\* with the parameters of the run, and the total spent, once computed, is the
\* sum over them.
C14_FiltersCommute ==
    (script \in {"tracker", "three"} /\ pc \in AfterAggregates \cup {"stats"}) =>
        /\ {ColumnOf(t, "idx") : t \in SixOrders} = {ColumnOf(filtered, "idx")}
        /\ pc \in AfterAggregates =>
               \A t \in SixOrders : total_spent = Num(SumAmounts(t))

\* C14 witness: a run of 3.py where the user filter and the category filter
\* each remove a row
C14_Witness ==
    /\ script = "three" /\ pc = "export"
    /\ Len(ByUsers(df)) < Len(df) /\ Len(ByCats(df)) < Len(df)
    /\ filtered # <<>>

(***************************************************************************)
(* Exported spreadsheet.                                                   *)
(***************************************************************************)
\* the orders in which the table of transactions is displayed: 3.py and new.py
\* show a copy sorted by date, latest first (rows of one date in any order);
\* expense_tracker.py shows the filtered table as it is
DisplayOrders ==
    IF script = "tracker" THEN {ColumnOf(filtered, "idx")}
    ELSE {ColumnOf(p, "idx") :
            p \in {q \in Orderings(Range(filtered)) :
                      \A i, j \in DOMAIN q : i < j => q[i].Date >= q[j].Date}}

\* the sheet holds the filtered transactions in a displayed order
IsTransactionSheet(sh) ==
    /\ \A i \in DOMAIN sh.table : "idx" \in DOMAIN sh.table[i]
    /\ ColumnOf(sh.table, "idx") \in DisplayOrders

\* the sheet lists the metrics total spent and average monthly spend with the
\* values of the KPIs
IsSummarySheet(sh) ==
    /\ \A i \in DOMAIN sh.table : DOMAIN sh.table[i] = {"Metric", "Value"}
    /\ \E i \in DOMAIN sh.table :
           sh.table[i].Metric = "Total Spent" /\ sh.table[i].Value = total_spent
    /\ \E i \in DOMAIN sh.table :
           sh.table[i].Metric = "Avg Monthly" /\ sh.table[i].Value = avg_monthly

\* C15: in expense_tracker.py, 3.py and new.py, a finished export offers a
\* spreadsheet with at least two named sheets, one of them holding exactly the
\* filtered transactions in the order they were displayed, and another one
\* the metrics total spent and average monthly spend with the KPI values.
C15_WorkbookHasDataAndSummary ==
    (script \in {"tracker", "three", "new"} /\ pc = "done") =>
        /\ Len(export.sheets) >= 2
        /\ \E i, j \in DOMAIN export.sheets :
              /\ i # j
              /\ export.sheets[i].name # export.sheets[j].name
              /\ IsTransactionSheet(export.sheets[i])
              /\ IsSummarySheet(export.sheets[j])

(***************************************************************************)
(* Range of the progress value.                                            *)
(***************************************************************************)
\* C17: in expense_tracker.py, new.py and xy.py, whatever the income, the
\* budgets, the goal and the expenses, a value handed to the progress
\* indicator is a fraction from 0.0 to 1.0 or an integer from 0 to 100; it is
\* never negative, also when the savings are.
C17_ProgressWithinRange ==
    progress.k # "none" =>
        /\ progress.k \in {"num", "int"}
        /\ progress.v >= 0
        /\ progress.v <= (IF progress.k = "int" THEN 100 ELSE progress.den)

(***************************************************************************)
(* Isolation of runs.                                                      *)
(***************************************************************************)
\* C16: when two runs of new.py, app.py or xy.py on different uploads
\* interleave, the report each run offers for download lists the category
\* totals of that run's own data, never those of the other run.
C16_ReportIsOwnTotals ==
    /\ (script \in ReportScripts /\ pc = "done") =>
           export.sheets[1].table = SummaryTable(category_totals)
    /\ other.pc = "done" => other.report = FileOf(SummaryTable(other.totals))

=============================================================================
